---- MODULE Spec2Model ----
\* A model of bot.py: the one-minute polling loop check_commits, the slash
\* commands that write the two tables it reads (add_github, remove_github,
\* set_github_channel), and the parts of GitHub and Discord they talk to.
\* Every await of the code is one step of the model, so the commands and a
\* poll interleave where asyncio lets them interleave.
EXTENDS Integers, Sequences, FiniteSets, TLC

\* ---------------------------------------------------------------- bounds
\* The behaviours explored are those of four bounded environments (see
\* Environments): a long history for one linked account, a short history
\* with an idle week, several accounts, and a guild whose settings change.
\* Commits ever pushed, over all repositories, in the long history.
MaxPushes == 4
\* Commits ever pushed in the other environments.
FewPushes == 2
\* Weeks that go by without a push.
MaxWeeks == 1
\* Rows ever inserted into github_accounts, with several accounts.
MaxAccounts == 2
\* Rows ever inserted where one account is enough.
OneAccount == 1

\* ------------------------------------------------------ program constants
\* timedelta(days=7): the trailing window.
WindowDays == 7
\* per_page=10 of the commits request.
PerPage == 10
\* ------------------------------------------------------------- GitHub side
Users == {"alice", "bob"}

\* What /users/{username}/repos lists, in the order it lists it: alice owns
\* two public repositories, bob a private one.
UserRepos(username) ==
    IF username = "alice"
    THEN << [name |-> "a1", private |-> FALSE], [name |-> "a2", private |-> FALSE] >>
    ELSE << [name |-> "bp", private |-> TRUE] >>

PublicRepoNames == {"a1", "a2"}

\* The bounded environments: how many rows are ever inserted, how many
\* commits are ever pushed, how many idle weeks go by, the guild the bot may
\* be in, and whether /set_github_channel and /remove_github are used.
Environments ==
    { [accounts |-> OneAccount,  pushes |-> MaxPushes, weeks |-> 0,
       guilds |-> {"g1"}, configures |-> FALSE, removes |-> FALSE],
      [accounts |-> OneAccount,  pushes |-> FewPushes, weeks |-> MaxWeeks,
       guilds |-> {"g1"}, configures |-> FALSE, removes |-> FALSE],
      [accounts |-> MaxAccounts, pushes |-> FewPushes, weeks |-> 0,
       guilds |-> {"g1"}, configures |-> FALSE, removes |-> TRUE],
      [accounts |-> OneAccount,  pushes |-> FewPushes, weeks |-> 0,
       guilds |-> {"g1", "g2"}, configures |-> TRUE, removes |-> FALSE] }

\* Outcomes of one HTTP request to GitHub: a 200, another status, or an
\* aiohttp.ClientError raised by session.get.
HttpOutcomes == {"ok", "status", "transport"}

\* ------------------------------------------------------------ Discord side
Guilds == {"g1", "g2"}

\* The text channels of a guild; only g1 has one named github-activity.
GuildChannels(g) == IF g = "g1" THEN {"github-activity", "updates"} ELSE {"general"}

NoChannel == "none"

\* ------------------------------------------------------------------ values
\* A last_event_id: NULL, a commit sha, or the id of a push event. A sha is
\* 40 hex characters and an event id a decimal number, so the two kinds are
\* never the same string.
NULL == [kind |-> "null", n |-> 0]
Sha(n) == [kind |-> "sha", n |-> n]
EventId(n) == [kind |-> "event", n |-> n]

\* The numeric id GitHub gave the push event that carried commit n.
EventIdOf(n) == 18 + n

VARIABLES
    env,             \* the bounded environment of this behaviour
    \* GitHub and the wall clock
    github,          \* repository name -> its commits, newest first
    clock,           \* datetime.utcnow(), in days
    \* the database
    github_accounts, \* the rows of the table, in rowid order
    next_id,         \* the AUTOINCREMENT counter
    settings,        \* guild_id -> update_channel_id, or NoChannel
    \* Discord
    guilds,          \* bot.guilds
    \* check_commits: the loop and the locals of the running iteration
    pc, exc, accounts, now, i, repos, r, new_commits, newest_commits,
    most_recent_sha, channel, k,
    \* add_github: the locals of the invocation in flight
    apc, a_username, acc_id, public_repos, a_r, newest_event_id,
    \* observation
    sent,            \* the messages sent for the account being processed
    persisted,       \* the UPDATE of the account being processed is committed
    allok,           \* every request made for the account being processed got a 200
    pushed,          \* a commit was pushed since its processing began
    quiet,           \* ids of the accounts last processed with allok and no push since
    skipped,         \* shas passed over by a catch-up (newer than the cursor, not the newest)
    undelivered,     \* shas selected by a pass that ended with no channel or a rejected send
    running,         \* invocations of check_commits that have started and not ended
    found            \* the push events add_github has met: the latest of each 200 listing

upstream == << github, clock >>
db == << github_accounts, next_id, settings >>
tick == << pc, exc, accounts, now, i, repos, r, new_commits, newest_commits,
           most_recent_sha, channel, k >>
cmd == << apc, a_username, acc_id, public_repos, a_r, newest_event_id, found >>
obs == << sent, persisted, allok, pushed, quiet, skipped >>
\* What no step changes: the environment, and the guild the bot is in.
fixed == << env, guilds >>
\* What the loop and the deliveries leave behind them.
hist == << undelivered, running >>
vars == << fixed, upstream, db, tick, cmd, obs, hist >>

\* ----------------------------------------------------------------- helpers
Min(a, b) == IF a < b THEN a ELSE b

RECURSIVE SumLen(_, _)
SumLen(f, S) ==
    IF S = {} THEN 0
    ELSE LET x == CHOOSE y \in S : TRUE IN Len(f[x]) + SumLen(f, S \ {x})

\* The number of commits pushed so far; the next commit's sha is one more.
NumPushes == SumLen(github, PublicRepoNames)

AllCommits == UNION { { github[n][j] : j \in 1..Len(github[n]) } : n \in PublicRepoNames }

\* The weeks that went by without a push: every push takes a day.
WeeksPassed == (clock - NumPushes) \div WindowDays

\* The commit a sha names.
CommitOf(sha) == CHOOSE c \in AllCommits : c.sha = sha

\* ------------------------------------------------------- strings (add_github)
\* Characters are their ASCII codes; a string is a sequence of them.
Digit(d) == 48 + d

RECURSIVE Dec(_)
\* The decimal text of a natural number: the "id" of an event.
Dec(n) == IF n < 10 THEN << Digit(n) >> ELSE Append(Dec(n \div 10), Digit(n % 10))

\* The "created_at" of an event of day d, as GitHub writes it: 2026-11-DD
\* and the time of day, which is the same text for every day and left out.
IsoDate(d) ==
    << Digit(2), Digit(0), Digit(2), Digit(6), 45, Digit(1), Digit(1), 45,
       Digit(((d + 1) \div 10) % 10), Digit((d + 1) % 10) >>

RECURSIVE StrGT(_, _)
\* Python's s > t on str: lexicographic by code point, a proper prefix is less.
StrGT(s, t) ==
    IF s = << >> THEN FALSE
    ELSE IF t = << >> THEN TRUE
    ELSE IF Head(s) # Head(t) THEN Head(s) > Head(t)
    ELSE StrGT(Tail(s), Tail(t))

\* ------------------------------------------------------------ get_public_repos
RECURSIVE PublicNames(_)
\* [repo["name"] for repo in repos if not repo["private"]]
PublicNames(listing) ==
    IF listing = << >> THEN << >>
    ELSE (IF Head(listing).private THEN << >> ELSE << Head(listing).name >>)
         \o PublicNames(Tail(listing))

\* The list get_public_repos returns when its request ends with `outcome`
\* (a transport error is raised, not returned: see the callers).
get_public_repos(username, outcome) ==
    IF outcome # "ok" THEN << >> ELSE PublicNames(UserRepos(username))

\* --------------------------------------------------------------- check_commits
\* The page of ?per_page=10: the newest commits of the repository.
CommitsPage(repo) == SubSeq(github[repo], 1, Min(Len(github[repo]), PerPage))

\* The window test left out: every commit passes.
NoWindow(t, commit_date) == TRUE

\* now - commit_date <= timedelta(days=7)
InWindow(t, commit_date) == t - commit_date <= WindowDays

\* The comparison with the cursor left out: no commit stops the walk.
NeverLastSeen(commit, last_event_id) == FALSE

\* if last_event_id and sha == last_event_id
IsLastSeen(commit, last_event_id) ==
    last_event_id # NULL /\ Sha(commit.sha) = last_event_id

RECURSIVE Walk(_, _, _, _)
\* The for loop over one repository's page: what it appends to new_commits.
Walk(commits, repo, last_event_id, t) ==
    IF commits = << >> THEN << >>
    ELSE LET commit == Head(commits) IN
         IF IsLastSeen(commit, last_event_id) THEN << >>
         ELSE (IF InWindow(t, commit.date)
               THEN << [repo |-> repo, commit |-> commit] >> ELSE << >>)
              \o Walk(Tail(commits), repo, last_event_id, t)

\* The comparison of the dates turned round: the oldest commit wins.
ReplacesOlder(entry, dict) ==
    \A j \in 1..Len(dict) :
        dict[j].repo = entry.repo => entry.commit.date < dict[j].commit.date

\* repo_name not in newest_commits or commit_date > newest_commits[repo_name][1]
Replaces(entry, dict) ==
    \A j \in 1..Len(dict) :
        dict[j].repo = entry.repo => entry.commit.date > dict[j].commit.date

\* A list in place of the dict: every commit is kept.
KeepsAll(commits, dict) == dict \o commits

\* newest_commits[repo_name] = (commit, commit_date): a dict keeps the place
\* of a key it already holds and appends a new key.
DictPut(dict, entry) ==
    IF \E j \in 1..Len(dict) : dict[j].repo = entry.repo
    THEN [j \in 1..Len(dict) |-> IF dict[j].repo = entry.repo THEN entry ELSE dict[j]]
    ELSE Append(dict, entry)

RECURSIVE Conflate(_, _)
\* The loop that keeps the newest commit per repository.
Conflate(commits, dict) ==
    IF commits = << >> THEN dict
    ELSE Conflate(Tail(commits),
                  IF Replaces(Head(commits), dict) THEN DictPut(dict, Head(commits))
                  ELSE dict)

\* No comparison of the dates: the first of the values is kept.
FirstValue(dict, best) == best

RECURSIVE MaxByDate(_, _)
\* max(values, key=date): the first of the values with the largest date.
MaxByDate(dict, best) ==
    IF dict = << >> THEN best
    ELSE MaxByDate(Tail(dict),
                   IF Head(dict).commit.date > best.commit.date THEN Head(dict) ELSE best)

\* max(newest_commits.values(), key=lambda x: x[1])[0]["sha"]
MostRecentSha(dict) == Sha(MaxByDate(Tail(dict), Head(dict)).commit.sha)

\* UPDATE github_accounts SET last_event_id = ? WHERE id = ?
UpdateLastEventId(rows, id, value) ==
    [j \in 1..Len(rows) |->
        IF rows[j].id = id THEN [rows[j] EXCEPT !.last_event_id = value] ELSE rows[j]]

\* discord.utils.get(bot.guilds[0].channels, name="github-activity")
FallbackChannel(g) ==
    IF "github-activity" \in GuildChannels(g) THEN "github-activity" ELSE NoChannel

\* The two sources in the other order: the channel named github-activity
\* when the guild has one, the configured channel otherwise.
FallbackFirst(g) ==
    IF FallbackChannel(g) # NoChannel THEN FallbackChannel(g) ELSE settings[g]

\* bot.get_channel(channel_id) if channel_id else the channel named github-activity
ChannelFor(g) == IF settings[g] # NoChannel THEN settings[g] ELSE FallbackChannel(g)

\* Lines 101-112: no guild, no channel.
ResolveChannel == IF guilds = << >> THEN NoChannel ELSE ChannelFor(guilds[1])

\* ------------------------------------------------------------------ add_github
\* What /repos/{user}/{repo}/events lists, newest first: one PushEvent per
\* push, and the CreateEvent of the repository.
RepoEvents(repo) ==
    [j \in 1..Len(github[repo]) |->
        [type |-> "PushEvent", id |-> EventIdOf(github[repo][j].sha),
         created_at |-> github[repo][j].date]]
    \o << [type |-> "CreateEvent", id |-> EventIdOf(0), created_at |-> 0] >>

\* The event the scan of a listing stops at: its first PushEvent, if any.
LatestPush(events) ==
    { events[x] : x \in { j \in 1..Len(events) :
                             /\ events[j].type = "PushEvent"
                             /\ \A j2 \in 1..(j - 1) : events[j2].type # "PushEvent" } }

\* not newest_event_id or event["created_at"] > newest_event_id
TakesEvent(event, newest) ==
    newest = NULL \/ StrGT(IsoDate(event.created_at), Dec(newest.n))

RECURSIVE ScanEvents(_, _)
\* The for loop over one repository's events: newest_event_id after it.
ScanEvents(events, newest) ==
    IF events = << >> THEN newest
    ELSE IF Head(events).type = "PushEvent"
         THEN (IF TakesEvent(Head(events), newest) THEN EventId(Head(events).id) ELSE newest)
         ELSE ScanEvents(Tail(events), newest)

\* ------------------------------------------------------------------------ Init
\* setup_hook has run: init_db created two empty tables and check_commits is
\* started. The bot is in one guild.
Init ==
    /\ env \in Environments
    /\ github = [n \in PublicRepoNames |-> << >>]
    /\ clock = 0
    /\ github_accounts = << >>
    /\ next_id = 1
    /\ settings = [g \in Guilds |-> NoChannel]
    /\ guilds \in { << g >> : g \in env.guilds }
    /\ pc = "idle" /\ exc = "none"
    /\ accounts = << >> /\ now = 0 /\ i = 0
    /\ repos = << >> /\ r = 0 /\ new_commits = << >> /\ newest_commits = << >>
    /\ most_recent_sha = NULL /\ channel = NoChannel /\ k = 0
    /\ apc = "idle" /\ a_username = "" /\ acc_id = 0
    /\ public_repos = << >> /\ a_r = 0 /\ newest_event_id = NULL
    /\ found = {}
    /\ sent = << >> /\ persisted = FALSE /\ allok = TRUE /\ pushed = FALSE
    /\ quiet = {}
    /\ skipped = {}
    /\ undelivered = {}
    /\ running = 0

\* ----------------------------------------------------------------- environment
\* A push of one commit to a public repository; commits are a day apart.
Push(repo) ==
    /\ NumPushes < env.pushes
    /\ github' = [github EXCEPT ![repo] = << [sha |-> NumPushes + 1, date |-> clock] >> \o @]
    /\ clock' = clock + 1
    /\ pushed' = TRUE /\ quiet' = {}
    /\ UNCHANGED << sent, persisted, allok, skipped >>
    /\ UNCHANGED << fixed, db, tick, cmd, hist >>

\* A week goes by without a push.
WeekPasses ==
    /\ WeeksPassed < env.weeks
    /\ clock' = clock + WindowDays
    /\ UNCHANGED << github, fixed, db, tick, cmd, obs, hist >>

\* ---------------------------------------------------------- set_github_channel
\* /set_github_channel in the bot's guild: INSERT OR REPLACE INTO settings.
set_github_channel(g, ch) ==
    /\ env.configures
    /\ g = guilds[1]
    /\ settings' = [settings EXCEPT ![g] = ch]
    /\ UNCHANGED << fixed, upstream, github_accounts, next_id, tick, cmd, obs, hist >>

\* The rows DELETE FROM github_accounts WHERE github_username = ? leaves.
DeleteByUsername(rows, username) ==
    SelectSeq(rows, LAMBDA row : row.github_username # username)

\* /remove_github
remove_github(username) ==
    /\ env.removes
    /\ github_accounts' = DeleteByUsername(github_accounts, username)
    /\ UNCHANGED << fixed, upstream, next_id, settings, tick, cmd, obs, hist >>

\* ------------------------------------------------------------ add_github, steps
AddReturn ==
    /\ apc' = "idle" /\ a_username' = "" /\ acc_id' = 0
    /\ public_repos' = << >> /\ a_r' = 0 /\ newest_event_id' = NULL
    /\ found' = {}

\* Lines 296-302: the INSERT with last_event_id NULL, committed.
AddInsert(username) ==
    /\ apc = "idle"
    /\ next_id <= env.accounts
    /\ github_accounts' = Append(github_accounts,
           [id |-> next_id, github_username |-> username, last_event_id |-> NULL])
    /\ next_id' = next_id + 1
    /\ apc' = "repos" /\ a_username' = username /\ acc_id' = next_id
    /\ UNCHANGED << public_repos, a_r, newest_event_id, found >>
    /\ UNCHANGED << fixed, upstream, settings, tick, obs, hist >>

\* Lines 307-310: get_public_repos; no repository, or no 200, ends the command,
\* and a transport error ends it with the exception.
AddRepos(outcome) ==
    /\ apc = "repos"
    /\ IF outcome = "transport" \/ get_public_repos(a_username, outcome) = << >>
       THEN AddReturn
       ELSE /\ public_repos' = get_public_repos(a_username, outcome)
            /\ a_r' = 1 /\ apc' = "events"
            /\ UNCHANGED << a_username, acc_id, newest_event_id, found >>
    /\ UNCHANGED << fixed, upstream, db, tick, obs, hist >>

\* Lines 316-326: the events of public_repos[a_r].
AddEvents(outcome) ==
    /\ apc = "events"
    /\ IF outcome = "transport"
       THEN AddReturn
       ELSE /\ newest_event_id' =
                  IF outcome = "ok"
                  THEN ScanEvents(RepoEvents(public_repos[a_r]), newest_event_id)
                  ELSE newest_event_id
            /\ found' = IF outcome = "ok"
                        THEN found \cup LatestPush(RepoEvents(public_repos[a_r]))
                        ELSE found
            /\ IF a_r < Len(public_repos)
               THEN a_r' = a_r + 1 /\ apc' = "events"
               ELSE a_r' = 0 /\ apc' = "seed"
            /\ UNCHANGED << a_username, acc_id, public_repos >>
    /\ UNCHANGED << fixed, upstream, db, tick, obs, hist >>

\* Lines 329-340: the seed UPDATE, when a push event was found.
AddSeed ==
    /\ apc = "seed"
    /\ github_accounts' =
           IF newest_event_id # NULL
           THEN UpdateLastEventId(github_accounts, acc_id, newest_event_id)
           ELSE github_accounts
    /\ AddReturn
    /\ UNCHANGED << fixed, upstream, next_id, settings, tick, obs, hist >>

add_github ==
    \/ \E username \in Users : AddInsert(username)
    \/ \E outcome \in HttpOutcomes : AddRepos(outcome)
    \/ \E outcome \in HttpOutcomes : AddEvents(outcome)
    \/ AddSeed

\* --------------------------------------------------------- check_commits, steps
\* The row being processed: accounts[i] of the snapshot.
acc == accounts[i]

\* The locals of one pass of the for loop of line 60, as a pass finds them.
FreshPass ==
    /\ repos' = << >> /\ r' = 0 /\ new_commits' = << >> /\ newest_commits' = << >>
    /\ most_recent_sha' = NULL /\ channel' = NoChannel /\ k' = 0
    /\ sent' = << >> /\ persisted' = FALSE /\ allok' = TRUE /\ pushed' = FALSE

\* An invocation started by the clock alone, whether or not the one before
\* it has ended.
TickStartsAnyway ==
    /\ github_accounts # << >>
    /\ accounts' = github_accounts
    /\ now' = clock
    /\ i' = 1
    /\ pc' = "repos"
    /\ running' = running + 1
    /\ UNCHANGED << exc, repos, r, new_commits, newest_commits, most_recent_sha, channel, k >>
    /\ UNCHANGED << fixed, upstream, db, cmd, obs, undelivered >>

\* Lines 51-58: the loop awaits one invocation before it starts the next;
\* the invocation begins with the snapshot of the table and the time.
TickStart ==
    /\ pc = "idle"
    /\ github_accounts # << >>
    /\ accounts' = github_accounts
    /\ now' = clock
    /\ i' = 1
    /\ pc' = "repos"
    /\ UNCHANGED << exc, repos, r, new_commits, newest_commits, most_recent_sha, channel, k >>
    /\ running' = running + 1
    /\ UNCHANGED << fixed, upstream, db, cmd, obs, undelivered >>

\* An exception leaves the coroutine: nothing in check_commits catches it.
Raise(e) ==
    /\ pc' = "raised" /\ exc' = e
    /\ UNCHANGED << accounts, now, i, repos, r, new_commits, newest_commits,
                    most_recent_sha, channel, k >>

\* The end of one pass: `continue`, or the end of the loop body.
EndPass == pc' = "next" /\ UNCHANGED << exc, accounts, now, i >>

\* Lines 61-64: get_public_repos(username); an empty list skips the account.
ListRepos(outcome) ==
    /\ pc = "repos"
    /\ IF outcome = "transport"
       THEN /\ Raise("ClientError")
            /\ UNCHANGED obs
       ELSE /\ repos' = get_public_repos(acc.github_username, outcome)
            /\ allok' = (outcome = "ok")
            /\ pushed' = FALSE
            /\ IF repos' = << >>
               THEN /\ EndPass /\ r' = 0
                    /\ quiet' = IF allok' THEN quiet \cup {acc.id} ELSE quiet \ {acc.id}
               ELSE /\ pc' = "commits" /\ r' = 1
                    /\ UNCHANGED << exc, accounts, now, i, quiet >>
            /\ UNCHANGED << new_commits, newest_commits, most_recent_sha, channel, k >>
            /\ UNCHANGED << sent, persisted, skipped >>
    /\ UNCHANGED << fixed, upstream, db, cmd, hist >>

\* Lines 70-82: the commits of repos[r]; a status other than 200 skips the
\* repository, and the page of a 200 is walked into new_commits.
FetchCommits(outcome) ==
    /\ pc = "commits"
    /\ IF outcome = "transport"
       THEN /\ Raise("ClientError")
            /\ UNCHANGED obs
       ELSE /\ new_commits' =
                  IF outcome = "ok"
                  THEN new_commits \o Walk(CommitsPage(repos[r]), repos[r],
                                           acc.last_event_id, now)
                  ELSE new_commits
            /\ allok' = (allok /\ outcome = "ok")
            /\ IF r < Len(repos)
               THEN r' = r + 1 /\ pc' = "commits"
               ELSE r' = 0 /\ pc' = "select"
            /\ UNCHANGED << exc, accounts, now, i, repos, newest_commits,
                            most_recent_sha, channel, k >>
            /\ UNCHANGED << sent, persisted, pushed, quiet, skipped >>
    /\ UNCHANGED << fixed, upstream, db, cmd, hist >>

\* The entries of new_commits that come from one repository, in page order.
EntriesOf(commits, repo) == SelectSeq(commits, LAMBDA e : e.repo = repo)

\* The repository that holds the commit a cursor names, if it names one.
HoldsCursor(repo, last_event_id) ==
    /\ last_event_id.kind = "sha"
    /\ \E j \in 1..Len(github[repo]) : github[repo][j].sha = last_event_id.n

\* The shas a catch-up passes over: when the cursor is a commit of a
\* repository and the walk of that repository found two or more commits,
\* all of them but the first (the newest).
PassedOver(commits, last_event_id) ==
    UNION { IF HoldsCursor(n, last_event_id) /\ Len(EntriesOf(commits, n)) >= 2
            THEN { EntriesOf(commits, n)[j].commit.sha :
                       j \in 2..Len(EntriesOf(commits, n)) }
            ELSE {} : n \in PublicRepoNames }

\* Select with the cursor cleared when nothing is new, in place of `continue`.
SelectResets ==
    /\ pc = "select"
    /\ quiet' = IF allok /\ ~pushed THEN quiet \cup {acc.id} ELSE quiet \ {acc.id}
    /\ newest_commits' = Conflate(new_commits, << >>)
    /\ most_recent_sha' =
           IF new_commits = << >> THEN NULL ELSE MostRecentSha(newest_commits')
    /\ skipped' = skipped \cup PassedOver(new_commits, acc.last_event_id)
    /\ pc' = "update"
    /\ UNCHANGED << exc, accounts, now, i >>
    /\ UNCHANGED << repos, r, new_commits, channel, k >>
    /\ UNCHANGED << sent, persisted, allok, pushed >>
    /\ UNCHANGED << fixed, upstream, db, cmd, hist >>

\* Lines 84-92: nothing new ends the pass; otherwise the newest commit of
\* each repository, and the sha of the most recent of those.
Select ==
    /\ pc = "select"
    /\ quiet' = IF allok /\ ~pushed THEN quiet \cup {acc.id} ELSE quiet \ {acc.id}
    /\ IF new_commits = << >>
       THEN /\ EndPass
            /\ UNCHANGED << newest_commits, most_recent_sha, skipped >>
       ELSE /\ newest_commits' = Conflate(new_commits, << >>)
            /\ most_recent_sha' = MostRecentSha(newest_commits')
            /\ skipped' = skipped \cup PassedOver(new_commits, acc.last_event_id)
            /\ pc' = "update"
            /\ UNCHANGED << exc, accounts, now, i >>
    /\ UNCHANGED << repos, r, new_commits, channel, k >>
    /\ UNCHANGED << sent, persisted, allok, pushed >>
    /\ UNCHANGED << fixed, upstream, db, cmd, hist >>

\* Update with the UPDATE left for after the sends.
UpdateLater(outcome) ==
    /\ pc = "update"
    /\ outcome = "ok"
    /\ pc' = "channel"
    /\ UNCHANGED << exc, accounts, now, i >>
    /\ UNCHANGED << repos, r, new_commits, newest_commits, most_recent_sha, channel, k >>
    /\ UNCHANGED << fixed, upstream, db, cmd, obs, hist >>

\* Lines 93-98: the UPDATE of last_event_id and its commit; sqlite may raise.
Update(outcome) ==
    /\ pc = "update"
    /\ IF outcome = "ok"
       THEN /\ github_accounts' = UpdateLastEventId(github_accounts, acc.id, most_recent_sha)
            /\ persisted' = TRUE
            /\ pc' = "channel"
            /\ UNCHANGED << exc, accounts, now, i >>
       ELSE /\ Raise("OperationalError")
            /\ UNCHANGED << github_accounts, persisted >>
    /\ UNCHANGED << repos, r, new_commits, newest_commits, most_recent_sha, channel, k >>
    /\ UNCHANGED << sent, allok, pushed, quiet, skipped >>
    /\ UNCHANGED << fixed, upstream, next_id, settings, cmd, hist >>

\* The shas of the selection from item k on: those a pass has not sent.
ShasFrom(dict, from) == { dict[j].commit.sha : j \in from..Len(dict) }

\* Lines 101-114: the channel to post in; none ends the pass. The SELECT on
\* settings, made when the bot has a guild, may raise.
Channel(outcome) ==
    /\ pc = "channel"
    /\ IF outcome = "ok"
       THEN /\ channel' = ResolveChannel
            /\ IF channel' = NoChannel
               THEN /\ EndPass /\ k' = 0
                    /\ undelivered' = undelivered \cup ShasFrom(newest_commits, 1)
               ELSE /\ pc' = "send" /\ k' = 1
                    /\ UNCHANGED << exc, accounts, now, i, undelivered >>
       ELSE /\ guilds # << >>
            /\ Raise("OperationalError")
            /\ UNCHANGED undelivered
    /\ UNCHANGED << repos, r, new_commits, newest_commits, most_recent_sha >>
    /\ UNCHANGED << fixed, upstream, db, cmd, obs, running >>

\* Lines 115-120: one channel.send, for item k of newest_commits; Discord
\* may reject it.
Send(outcome) ==
    /\ pc = "send"
    /\ IF outcome = "ok"
       THEN /\ sent' = Append(sent, [channel |-> channel, username |-> acc.github_username,
                                     repo |-> newest_commits[k].repo,
                                     sha |-> newest_commits[k].commit.sha])
            /\ IF k < Len(newest_commits)
               THEN k' = k + 1 /\ pc' = "send" /\ UNCHANGED << exc, accounts, now, i >>
               ELSE k' = 0 /\ EndPass
            /\ UNCHANGED undelivered
       ELSE /\ Raise("HTTPException")
            /\ undelivered' = undelivered \cup ShasFrom(newest_commits, k)
            /\ UNCHANGED sent
    /\ UNCHANGED << repos, r, new_commits, newest_commits, most_recent_sha, channel >>
    /\ UNCHANGED << persisted, allok, pushed, quiet, skipped >>
    /\ UNCHANGED << fixed, upstream, db, cmd, running >>

\* Line 60: the for statement takes the next row of the snapshot, or the
\* coroutine returns and the loop sleeps until the next minute.
NextAccount ==
    /\ pc = "next"
    /\ FreshPass
    /\ IF i < Len(accounts)
       THEN pc' = "repos" /\ i' = i + 1 /\ UNCHANGED << accounts, now >>
       ELSE pc' = "idle" /\ i' = 0 /\ accounts' = << >> /\ now' = 0
    /\ running' = IF i < Len(accounts) THEN running ELSE running - 1
    /\ UNCHANGED << exc, quiet, skipped >>
    /\ UNCHANGED << fixed, upstream, db, cmd, undelivered >>

\* The exceptions tasks.loop answers by running the coroutine again.
Retried == {"ClientError"}

\* @tasks.loop(minutes=1): an exception of the coroutine that the loop
\* retries leads to another iteration; any other ends the task for good.
LoopHandler ==
    /\ pc = "raised"
    /\ pc' = IF exc \in Retried THEN "idle" ELSE "stopped"
    /\ exc' = "none"
    /\ i' = 0 /\ accounts' = << >> /\ now' = 0
    /\ FreshPass
    /\ UNCHANGED << quiet, skipped >>
    /\ running' = running - 1
    /\ UNCHANGED << fixed, upstream, db, cmd, undelivered >>

check_commits ==
    \/ TickStart
    \/ \E outcome \in HttpOutcomes : ListRepos(outcome)
    \/ \E outcome \in HttpOutcomes : FetchCommits(outcome)
    \/ Select
    \/ \E outcome \in {"ok", "error"} : Update(outcome)
    \/ \E outcome \in {"ok", "error"} : Channel(outcome)
    \/ \E outcome \in {"ok", "rejected"} : Send(outcome)
    \/ NextAccount
    \/ LoopHandler

Next ==
    \/ \E repo \in PublicRepoNames : Push(repo)
    \/ WeekPasses
    \/ \E g \in Guilds : \E ch \in GuildChannels(g) : set_github_channel(g, ch)
    \/ \E username \in Users : remove_github(username)
    \/ add_github
    \/ check_commits

Spec == Init /\ [][Next]_vars

\* The event loop runs a coroutine that is ready, and the loop's timer fires
\* every minute: a step of check_commits that stays possible is taken.
FairSpec == Spec /\ WF_vars(check_commits)

\* ---------------------------------------------------------------- the claims
\* The rows of the table that carry an id (one, or none after a removal).
RowsOf(id) == { github_accounts[j] : j \in { x \in 1..Len(github_accounts) :
                                              github_accounts[x].id = id } }

\* The pass has chosen: newest_commits is what the account's pass selected.
Chosen == newest_commits # << >>

\* The repositories whose walk put a commit into new_commits.
ReposWithNew == { n \in PublicRepoNames : EntriesOf(new_commits, n) # << >> }

\* The places of newest_commits that hold a commit of repository n.
PlacesOf(n) == { j \in 1..Len(newest_commits) : newest_commits[j].repo = n }

\* C1: cursor monotonicity. Whenever a step replaces an account's stored
\* cursor, a commit, by another commit, the new one is not older than the
\* old one.
CursorNeverOlder ==
    [][\A j \in 1..Len(github_accounts) : \A j2 \in 1..Len(github_accounts') :
          ( /\ github_accounts[j].id = github_accounts'[j2].id
            /\ github_accounts[j].last_event_id.kind = "sha"
            /\ github_accounts'[j2].last_event_id.kind = "sha" )
          => CommitOf(github_accounts'[j2].last_event_id.n).date
               >= CommitOf(github_accounts[j].last_event_id.n).date]_vars

\* C2: no-op idempotence. When the walk of an account is complete, every
\* request of this pass got a 200, the account's previous pass was complete
\* with every request a 200 too, and no commit was pushed since that pass
\* began, then nothing is selected.
SecondTickSelectsNothing ==
    (pc = "select" /\ allok /\ acc.id \in quiet) => new_commits = << >>

\* C3: per-repo conflation. Once a pass has chosen, every repository with
\* one or more qualifying commits has exactly one place in the selection,
\* held by a qualifying commit of that repository of the greatest date; a
\* repository with none has no place; the messages sent are the selection
\* in its order, one per place and no more than the repositories with
\* qualifying commits; and a pass that ends with a channel has sent them all.
PerRepoConflation ==
    Chosen =>
        /\ \A n \in PublicRepoNames :
              IF n \in ReposWithNew
              THEN /\ Cardinality(PlacesOf(n)) = 1
                   /\ \A j \in PlacesOf(n) :
                         /\ \E e \in 1..Len(new_commits) : new_commits[e] = newest_commits[j]
                         /\ \A e \in 1..Len(new_commits) :
                               new_commits[e].repo = n =>
                                   new_commits[e].commit.date <= newest_commits[j].commit.date
              ELSE PlacesOf(n) = {}
        /\ Len(sent) <= Cardinality(ReposWithNew)
        /\ \A j \in 1..Len(sent) :
              /\ sent[j].repo = newest_commits[j].repo
              /\ sent[j].sha = newest_commits[j].commit.sha
        /\ (pc = "next" /\ channel # NoChannel) => Len(sent) = Cardinality(ReposWithNew)

\* C3's case: a pass that found three or more qualifying commits in two
\* repositories has ended, with one message for each repository.
PerRepoConflationWitness ==
    /\ pc = "next"
    /\ Len(new_commits) >= 3
    /\ Cardinality(ReposWithNew) = 2
    /\ Len(sent) = 2

\* C4: window exclusion. No commit dated before now - 7 days is accumulated,
\* selected, sent, or made the cursor by the pass, whatever the cursor was.
WindowExclusion ==
    /\ \A j \in 1..Len(new_commits) : ~(new_commits[j].commit.date < now - WindowDays)
    /\ \A j \in 1..Len(newest_commits) : ~(newest_commits[j].commit.date < now - WindowDays)
    /\ \A j \in 1..Len(sent) : ~(CommitOf(sent[j].sha).date < now - WindowDays)
    /\ most_recent_sha # NULL => ~(CommitOf(most_recent_sha.n).date < now - WindowDays)
    /\ persisted =>
          \A row \in RowsOf(acc.id) :
              row.last_event_id.kind = "sha" =>
                  ~(CommitOf(row.last_event_id.n).date < now - WindowDays)

\* C4's case: a pass with every request a 200 has sent a message while a
\* repository it walked holds a commit older than the window.
WindowExclusionWitness ==
    /\ pc = "next" /\ allok /\ sent # << >>
    /\ \E c \in AllCommits : c.date < now - WindowDays

\* C5: cursor eligibility. With the cursor a commit, no selected commit is
\* that commit or one with an older date.
SelectedNewerThanCursor ==
    \A j \in 1..Len(newest_commits) :
        acc.last_event_id.kind = "sha" =>
            /\ newest_commits[j].commit.sha # acc.last_event_id.n
            /\ newest_commits[j].commit.date >= CommitOf(acc.last_event_id.n).date

\* The repositories where this pass catches up: the cursor is one of their
\* commits and the walk found two or more newer ones.
CatchUpRepos ==
    { n \in PublicRepoNames :
        Chosen /\ HoldsCursor(n, acc.last_event_id) /\ Len(EntriesOf(new_commits, n)) >= 2 }

\* The selection for a catch-up repository is the newest of the new commits
\* alone, and no message ever carries a commit a catch-up passed over.
CatchUpKeepsNewest ==
    /\ \A n \in CatchUpRepos :
          /\ Cardinality(PlacesOf(n)) = 1
          /\ \A j \in PlacesOf(n) : newest_commits[j] = EntriesOf(new_commits, n)[1]
    /\ \A j \in 1..Len(sent) : sent[j].sha \notin skipped

\* C6 as stated: newest-only catch-up, and the sha of the newest of the new
\* commits of that repository is the value the pass stores as the cursor.
CatchUpStoresNewest ==
    /\ CatchUpKeepsNewest
    /\ \A n \in CatchUpRepos : most_recent_sha = Sha(EntriesOf(new_commits, n)[1].commit.sha)

\* C6, amended: newest-only catch-up; the value the pass stores as the cursor
\* is the sha of a selected commit that no selected commit is more recent
\* than, which is the newest of the new commits of that repository whenever
\* no other repository's selected commit is more recent.
CatchUpNewestOnly ==
    /\ CatchUpKeepsNewest
    /\ \A n \in CatchUpRepos :
          /\ \E j \in 1..Len(newest_commits) :
                /\ most_recent_sha = Sha(newest_commits[j].commit.sha)
                /\ \A j2 \in 1..Len(newest_commits) :
                      newest_commits[j2].commit.date <= newest_commits[j].commit.date
          /\ (\A j \in 1..Len(newest_commits) :
                  newest_commits[j].commit.date <= EntriesOf(new_commits, n)[1].commit.date)
             => most_recent_sha = Sha(EntriesOf(new_commits, n)[1].commit.sha)

\* C6's case: a catch-up pass has ended and has sent the newest commit,
\* having passed over another.
CatchUpWitness ==
    /\ pc = "next"
    /\ CatchUpRepos # {}
    /\ sent # << >>
    /\ \E n \in CatchUpRepos : \E j \in 1..Len(sent) :
          sent[j].sha = EntriesOf(new_commits, n)[1].commit.sha
    /\ skipped # {}

\* C7: no qualifying commit, no effect. While new_commits is empty the pass
\* has selected nothing, written no cursor and sent nothing, and it never
\* reaches the UPDATE, the channel lookup or a send.
NothingNewNoEffect ==
    new_commits = << >> =>
        /\ newest_commits = << >> /\ most_recent_sha = NULL
        /\ ~persisted /\ sent = << >>
        /\ pc \notin {"update", "channel", "send"}

\* C7's case: the pass of an account with an unset cursor has ended, every
\* request a 200, with nothing new although a repository holds a commit (one
\* older than the window), and the stored cursor is still unset.
NothingNewWitness ==
    /\ pc = "next" /\ allok /\ repos # << >>
    /\ new_commits = << >>
    /\ acc.last_event_id = NULL
    /\ \E n \in PublicRepoNames : github[n] # << >> /\ github[n][1].date < now - WindowDays
    /\ \A row \in RowsOf(acc.id) : row.last_event_id = NULL
    /\ RowsOf(acc.id) # {}

\* A row of the snapshot whose pass, with every request a 200, would find a
\* qualifying commit and so select it, store a cursor and send.
HasQualifying(row) ==
    LET names == get_public_repos(row.github_username, "ok") IN
    \E x \in 1..Len(names) :
        Walk(CommitsPage(names[x]), names[x], row.last_event_id, now) # << >>

\* C8: cross-account isolation. A transport error in the repository listing
\* or in a commit fetch of one account takes the selection, the cursor and
\* the messages away from no later account of the snapshot: when it is
\* raised, no account still to come has a qualifying commit.
FetchFailureIsolated ==
    (pc = "raised" /\ exc = "ClientError") =>
        \A j \in (i + 1)..Len(accounts) : ~HasQualifying(accounts[j])

\* C9: per-account error containment. Whatever error a pass raises, every
\* account that follows in the snapshot still gets its pass in this tick.
ErrorContained ==
    pc = "raised" => \A j \in 1..Len(accounts) : j <= i

\* C10: persist before deliver. A pass sends, or is about to send, only after
\* its UPDATE is committed; the row then holds the sha the pass chose, unless
\* add_github's seed has since replaced it.
PersistBeforeDeliver ==
    (sent # << >> \/ pc = "send") =>
        /\ persisted
        /\ \A row \in RowsOf(acc.id) :
              row.last_event_id = most_recent_sha \/ row.last_event_id.kind = "event"

\* C10's case: a pass has ended with a message sent and the row holding the
\* sha it chose.
PersistBeforeDeliverWitness ==
    /\ pc = "next" /\ sent # << >>
    /\ \E row \in RowsOf(acc.id) : row.last_event_id = most_recent_sha

\* C11: delivery failure keeps progress. A step that ends a pass with no
\* channel, or with a send rejected, leaves the table as the pass's UPDATE
\* wrote it, and no message ever carries a commit that such a pass selected
\* and did not send.
UndeliveredNeverSent ==
    /\ \A j \in 1..Len(sent) : sent[j].sha \notin undelivered
    /\ (pc = "raised" /\ exc = "HTTPException") => persisted
    /\ (pc = "next" /\ Chosen /\ channel = NoChannel) => persisted

\* The UPDATE of the pass has raised: the exception is on its way out of
\* check_commits and nothing was committed.
WriteFailed == pc = "raised" /\ exc = "OperationalError" /\ ~persisted

\* C12: persistence failure aborts delivery and is retried. When the cursor
\* write of a pass fails, the pass has sent nothing, the row holds the cursor
\* the tick read (or add_github's seed), and the loop goes on to run another
\* tick: it does not stop.
WriteFailureRetried ==
    [][WriteFailed =>
          /\ sent = << >>
          /\ \A row \in RowsOf(acc.id) :
                row.last_event_id = acc.last_event_id \/ row.last_event_id.kind = "event"
          /\ pc' # "stopped"]_vars

\* C13: discovery failure skips the account. A listing that fails (another
\* status than 200, or a transport error) or lists no public repository ends
\* the account's pass as a skip: the loop goes on to the next row, no commit
\* was fetched, nothing was sent and the table is as it was.
DiscoveryFailureSkips ==
    [][(pc = "repos" /\ pc' # "repos" /\ (~allok' \/ repos' = << >>)) =>
          /\ pc' = "next"
          /\ new_commits' = << >> /\ sent' = << >> /\ ~persisted'
          /\ github_accounts' = github_accounts]_vars

\* The repositories of the pass, other than repos[r], whose walk finds a
\* qualifying commit.
SiblingsWithNew ==
    { x \in 1..Len(repos) :
        x # r /\ Walk(CommitsPage(repos[x]), repos[x], acc.last_event_id, now) # << >> }

\* C14: fetch failure skips only that repository. When the commit listing of
\* repos[r] fails with a transport error, the pass does not end there with a
\* sibling repository's qualifying commit neither selected nor sent.
FetchFailureSkipsRepo ==
    (pc = "raised" /\ exc = "ClientError" /\ r > 0) => SiblingsWithNew = {}

SeedPreventsFlood ==
    ( /\ pc = "select"
      /\ acc.last_event_id.kind = "event"
      /\ \A c \in AllCommits : EventIdOf(c.sha) <= acc.last_event_id.n )
    => new_commits = << >>

\* C17: single cursor writer. A step that changes the cursor of a row that
\* holds a commit sha, the cursor a tick stored, is the UPDATE of a tick.
OnlyTicksWriteCursor ==
    [][\A j \in 1..Len(github_accounts) : \A j2 \in 1..Len(github_accounts') :
          ( /\ github_accounts[j].id = github_accounts'[j2].id
            /\ github_accounts[j].last_event_id.kind = "sha"
            /\ github_accounts'[j2].last_event_id # github_accounts[j].last_event_id )
          => (pc = "update" /\ pc' = "channel")]_vars

\* The places of the selection that no other place is more recent than.
LatestPlaces ==
    { j \in 1..Len(newest_commits) :
        \A j2 \in 1..Len(newest_commits) :
            newest_commits[j2].commit.date <= newest_commits[j].commit.date }

\* C18: cursor computation. The UPDATE of a pass stores, in the row of the
\* account of the pass (if /remove_github has left it one), the sha of a
\* selected commit that no selected commit of any of its repositories is
\* more recent than.
CursorIsLatestSelected ==
    [][(pc = "update" /\ pc' = "channel") =>
          \A row \in RowsOf(acc.id)' :
              \E j \in LatestPlaces : row.last_event_id = Sha(newest_commits[j].commit.sha)]_vars

\* C18's case: a pass has stored its cursor, chosen among the selections of
\* two repositories, and the latest of them is not the first.
CursorIsLatestWitness ==
    /\ persisted /\ pc = "channel"
    /\ Len(newest_commits) = 2
    /\ 1 \notin LatestPlaces
    /\ \E row \in RowsOf(acc.id) : row.last_event_id = Sha(newest_commits[2].commit.sha)

\* The place of the cursor commit in a page, or one past the page's end
\* when the page does not hold it.
CursorPlace(page, last_event_id) ==
    IF \E j \in 1..Len(page) : Sha(page[j].sha) = last_event_id
    THEN CHOOSE j \in 1..Len(page) :
             /\ Sha(page[j].sha) = last_event_id
             /\ \A j2 \in 1..(j - 1) : Sha(page[j2].sha) # last_event_id
    ELSE Len(page) + 1

\* The commits listed before the cursor commit that lie inside the window,
\* in page order, as entries of new_commits.
NewerInWindow(repo, last_event_id, t) ==
    LET page == CommitsPage(repo)
        kept == SelectSeq(SubSeq(page, 1, CursorPlace(page, last_event_id) - 1),
                          LAMBDA c : c.date >= t - WindowDays)
    IN [j \in 1..Len(kept) |-> [repo |-> repo, commit |-> kept[j]]]

\* C19: stop at cursor. The walk of a page fetched with a 200 accumulates
\* every commit listed before the cursor commit that lies inside the window,
\* and neither the cursor commit nor any commit listed after it.
WalkStopsAtCursor ==
    [][(pc = "commits" /\ r' # r /\ allok /\ allok') =>
          new_commits' = new_commits \o NewerInWindow(repos[r], acc.last_event_id, now)]_vars

\* C19's case: the walk of a repository has accumulated the commits listed
\* before the cursor commit, which is neither the first nor the last of the
\* page.
WalkStopsAtCursorWitness ==
    /\ pc \in {"commits", "select"} /\ allok
    /\ \E n \in PublicRepoNames :
          LET place == CursorPlace(CommitsPage(n), acc.last_event_id) IN
          /\ place >= 2 /\ place < Len(CommitsPage(n))
          /\ Len(EntriesOf(new_commits, n)) = place - 1

\* The channel the notifications of a pass are due to: the one configured
\* for the bot's guild, the one named github-activity when nothing is
\* configured, none when the guild has neither.
DueChannel ==
    LET g == guilds[1] IN
    IF settings[g] # NoChannel THEN settings[g]
    ELSE IF "github-activity" \in GuildChannels(g) THEN "github-activity"
    ELSE NoChannel

SeedIsNewestPush ==
    (apc = "seed" /\ found # {}) =>
        \E e \in found :
            /\ newest_event_id = EventId(e.id)
            /\ \A e2 \in found : e2.created_at <= e.created_at

\* C22: polling stays alive. Whenever an invocation of check_commits has
\* raised, the loop comes back to wait for its next iteration, from where a
\* later tick starts.
PollingStaysAlive == (pc = "raised") ~> (pc = "idle")

====
